---- MODULE Spec2Model ----
(***************************************************************************)
(* A model of leftrb: the LeftRB tree of src/leftrb/llrb.py layered on the *)
(* BinarySearchTree of src/leftrb/bst.py.                                  *)
(*                                                                         *)
(* A tree is a nested record: Nil for an absent child (Python's None in a  *)
(* left/right/root slot) or a node [key, val, color, height, left, right]. *)
(* Python's None as a value or a return value is the integer None; keys and *)
(* stored values are positive integers drawn from disjoint ranges, so that *)
(* "search returned the key" and "search returned the value" differ.       *)
(*                                                                         *)
(* A private helper that can raise returns [exc, t]: exc is "none" and t   *)
(* the returned subtree, or exc names the exception and t is what the      *)
(* object the caller passed in looks like at that moment (the caller's     *)
(* link still points at that object, because the assignment that would     *)
(* have replaced it never ran).  An exception that leaves a public method  *)
(* reaches the caller: exc names it until the next call, the tree stays as *)
(* the raising call left it, and the caller may go on calling.             *)
(***************************************************************************)
EXTENDS Integers, Sequences, FiniteSets

VARIABLES root, exc, last, pre, amap, calls

vars == <<root, exc, last, pre, amap, calls>>

\* ------------------------------------------------------------------ bounds
MaxKey == 3
MaxWideKey == 5
MaxInsertKey == 7
\* the longest runs explored: the number of calls made on one tree
MaxCalls == 7
MaxWideCalls == 19

Keys == 1 .. MaxKey
WideKeys == 1 .. MaxWideKey
InsertKeys == 1 .. MaxInsertKey
\* two distinct stored values, apart from the keys
Vals == {11, 12}

\* ------------------------------------------------------------- constants
RED == TRUE
BLACK == FALSE
None == 0
Nil == [nil |-> TRUE]

Max(a, b) == IF a >= b THEN a ELSE b

\* ------------------------------------------------------------------ nodes
is_red(h) == h # Nil /\ h.color = RED

is_black(h) == ~is_red(h)

\* LeftRB.Node.__init__ on top of BinarySearchTree.Node.__init__
Node(key, val) ==
    [key |-> key, val |-> val, color |-> RED, height |-> 1,
     left |-> Nil, right |-> Nil]

Ok(t) == [exc |-> "none", t |-> t]

Raise(e, t) == [exc |-> e, t |-> t]

\* the result of an optional restructuring step: same tells whether the
\* returned subtree root is still the object the step was called on
Step(e, t, same) == [exc |-> e, t |-> t, same |-> same]

\* ---------------------------------------------------------------- queries
RECURSIVE NodeSearch(_, _)
NodeSearch(h, key) ==
    IF h.key = key
    THEN (IF h.val # None THEN h.val ELSE h.key)
    ELSE IF key < h.key /\ h.left # Nil THEN NodeSearch(h.left, key)
    ELSE IF h.key < key /\ h.right # Nil THEN NodeSearch(h.right, key)
    ELSE None

RECURSIVE NodeMin(_)
NodeMin(h) == IF h.left = Nil THEN h.key ELSE NodeMin(h.left)

RECURSIVE NodeMax(_)
NodeMax(h) == IF h.right = Nil THEN h.key ELSE NodeMax(h.right)

RECURSIVE NodeSize(_)
NodeSize(h) ==
    1 + (IF h.left = Nil THEN 0 ELSE NodeSize(h.left))
      + (IF h.right = Nil THEN 0 ELSE NodeSize(h.right))

\* BinarySearchTree.search: self.root.search(key), an AttributeError on None
search(t, key) ==
    IF t = Nil THEN Raise("AttributeError", None) ELSE Ok(NodeSearch(t, key))

\* __contains__ with the test inverted
contains_Inverted(t, key) ==
    LET s == search(t, key)
    IN  IF s.exc # "none" THEN s ELSE Ok(s.t = None)

\* LeftRB.__contains__
contains(t, key) ==
    LET s == search(t, key)
    IN  IF s.exc # "none" THEN s ELSE Ok(s.t # None)

is_empty(t) == t = Nil

len(t) == IF t = Nil THEN 0 ELSE NodeSize(t)

height(t) == IF t = Nil THEN 0 ELSE t.height

min(t) == IF t = Nil THEN None ELSE NodeMin(t)

max(t) == IF t = Nil THEN None ELSE NodeMax(t)

\* ------------------------------------------------------------- transforms
_setHeight(h) ==
    [h EXCEPT !.height =
        1 + Max(IF h.left = Nil THEN 0 ELSE h.left.height,
                IF h.right = Nil THEN 0 ELSE h.right.height)]

\* x = self.right; self.right = x.left; x.left = self;
\* x.color = self.color; self.color = RED; return x
_rotate_left(h) ==
    LET x == h.right
    IN  [x EXCEPT !.left = [h EXCEPT !.right = x.left, !.color = RED],
                  !.color = h.color]

_rotate_right(h) ==
    LET x == h.left
    IN  [x EXCEPT !.right = [h EXCEPT !.left = x.right, !.color = RED],
                  !.color = h.color]

\* three assignments in order; the second or third raises on an absent child,
\* after the earlier ones have taken effect
_flip_colors(h) ==
    IF h.left = Nil
    THEN Raise("AttributeError", [h EXCEPT !.color = ~@])
    ELSE IF h.right = Nil
    THEN Raise("AttributeError", [h EXCEPT !.color = ~@, !.left.color = ~@])
    ELSE Ok([h EXCEPT !.color = ~@, !.left.color = ~@, !.right.color = ~@])

\* LeftRB.Node.insert: the colour flip on a node with two RED children, then
\* the call of super().insert, which BinarySearchTree.Node does not define and
\* so raises; the rotations and the height update after it are never reached
NodeInsert(h, key, value) ==
    IF is_red(h.left) /\ is_red(h.right)
    THEN Raise("AttributeError", _flip_colors(h).t)
    ELSE Raise("AttributeError", h)

\* the tree t after node.insert(key, value) was called on its node holding n
RECURSIVE NodeInsertAt(_, _, _, _)
NodeInsertAt(t, n, key, value) ==
    IF t.key = n THEN NodeInsert(t, key, value).t
    ELSE IF n < t.key
    THEN [t EXCEPT !.left = NodeInsertAt(t.left, n, key, value)]
    ELSE [t EXCEPT !.right = NodeInsertAt(t.right, n, key, value)]

\* _fix_up, line by line: the three tests and the height update
FixRightRed(h) == IF is_red(h.right) THEN _rotate_left(h) ELSE h

FixLeftLeftRed(h) ==
    IF is_red(h.left) /\ h.left # Nil /\ is_red(h.left.left)
    THEN _rotate_right(h) ELSE h

FixBothRed(h) ==
    IF is_red(h.left) /\ is_red(h.right) THEN _flip_colors(h).t ELSE h

_fix_up(h) == _setHeight(FixBothRed(FixLeftLeftRed(FixRightRed(h))))

\* _move_red_left from its second line on, f the outcome of the first flip;
\* after the rotations the object called on is the left child of the result
MoveRedLeftAfterFlip(f) ==
    IF f.exc # "none" THEN Step(f.exc, f.t, TRUE)
    ELSE IF f.t.right # Nil /\ is_red(f.t.right.left)
    THEN Step("none",
              _flip_colors(_rotate_left(
                  [f.t EXCEPT !.right = _rotate_right(f.t.right)])).t,
              FALSE)
    ELSE Step("none", f.t, TRUE)

_move_red_left(h) == MoveRedLeftAfterFlip(_flip_colors(h))

\* _move_red_right from its second line on; after the rotation the object
\* called on is the right child of the result
MoveRedRightAfterFlip(f) ==
    IF f.exc # "none" THEN Step(f.exc, f.t, TRUE)
    ELSE IF f.t.left # Nil /\ is_red(f.t.left.left)
    THEN Step("none", _flip_colors(_rotate_right(f.t)).t, FALSE)
    ELSE Step("none", f.t, TRUE)

_move_red_right(h) == MoveRedRightAfterFlip(_flip_colors(h))

\* ------------------------------------------------------------------ insert
\* BinarySearchTree._insert with cls = LeftRB: a plain descent that creates a
\* LeftRB.Node; it never calls LeftRB.Node.insert, so no flip, rotation or
\* height update happens on the way back
\* _insert that recomputes the cached height of every node on the way back
\* up, without rebalancing
RECURSIVE _insert_SetHeight(_, _, _)
_insert_SetHeight(h, key, value) ==
    IF h = Nil THEN Node(key, value)
    ELSE IF h.key = key THEN _setHeight([h EXCEPT !.val = value])
    ELSE IF key < h.key
    THEN _setHeight([h EXCEPT !.left = _insert_SetHeight(h.left, key, value)])
    ELSE _setHeight([h EXCEPT !.right = _insert_SetHeight(h.right, key, value)])

\* _insert that leaves the value of a key already present as it is
RECURSIVE _insert_NoUpdate(_, _, _)
_insert_NoUpdate(h, key, value) ==
    IF h = Nil THEN Node(key, value)
    ELSE IF h.key = key THEN h
    ELSE IF key < h.key
    THEN [h EXCEPT !.left = _insert_NoUpdate(h.left, key, value)]
    ELSE [h EXCEPT !.right = _insert_NoUpdate(h.right, key, value)]

RECURSIVE _insert(_, _, _)
_insert(h, key, value) ==
    IF h = Nil THEN Node(key, value)
    ELSE IF h.key = key THEN [h EXCEPT !.val = value]
    ELSE IF key < h.key THEN [h EXCEPT !.left = _insert(h.left, key, value)]
    ELSE [h EXCEPT !.right = _insert(h.right, key, value)]

\* LeftRB.insert: BinarySearchTree.insert, then self.root.color = BLACK
insert(t, key, value) == [_insert(t, key, value) EXCEPT !.color = BLACK]

\* ------------------------------------------------------------------ delete
\* The private helpers take the object h and hand back the new subtree root.
\* Each is written as the code runs: an operator per stretch of the method,
\* the outcome of the stretch before it passed in by value.
RECURSIVE _delete_min(_)
RECURSIVE _delete_max(_)
RECURSIVE _delete(_, _)

\* if is_black(h.left) and h.left and is_black(h.left.left):
\*     h = h._move_red_left()
BorrowLeft(h) ==
    IF is_black(h.left) /\ h.left # Nil /\ is_black(h.left.left)
    THEN _move_red_left(h) ELSE Step("none", h, TRUE)

\* if is_black(h.right) and h.right and is_black(h.right.left):
\*     h = h._move_red_right()
BorrowRight(h) ==
    IF is_black(h.right) /\ h.right # Nil /\ is_black(h.right.left)
    THEN _move_red_right(h) ELSE Step("none", h, TRUE)

\* h.left = <d>; return h._fix_up(), h the root m.t that BorrowLeft left.
\* When the recursion raised, the object passed in is h itself, its left link
\* unchanged, or (after a rotation) the object the recursion was called on.
LeftDone(m, d) ==
    IF d.exc # "none"
    THEN Raise(d.exc, IF m.same THEN [m.t EXCEPT !.left = d.t] ELSE d.t)
    ELSE Ok(_fix_up([m.t EXCEPT !.left = d.t]))

\* h.right = <d>; return h._fix_up(); onRight tells that the object passed in
\* is the right child of h, the one the recursion was called on
RightDone(h, d, onRight) ==
    IF d.exc # "none"
    THEN Raise(d.exc, IF onRight THEN d.t ELSE [h EXCEPT !.right = d.t])
    ELSE Ok(_fix_up([h EXCEPT !.right = d.t]))

\* LeftRB._delete_min
DeleteMinDescend(m) ==
    IF m.exc # "none" THEN Raise(m.exc, m.t)
    ELSE LeftDone(m, _delete_min(m.t.left))

_delete_min(h) ==
    IF h = Nil THEN Raise("AttributeError", Nil)
    ELSE IF h.left = Nil THEN Ok(Nil)
    ELSE DeleteMinDescend(BorrowLeft(h))

\* LeftRB._delete_max: rotateRight and fixUp are names the module never
\* defines, so reaching either line raises NameError.  h.right = <d> has run
\* when fixUp is reached.
MaxDone(m, d) ==
    IF d.exc # "none"
    THEN Raise(d.exc, IF m.same THEN [m.t EXCEPT !.right = d.t] ELSE d.t)
    ELSE Raise("NameError", IF m.same THEN [m.t EXCEPT !.right = d.t]
                            ELSE m.t.right)

DeleteMaxDescend(m) ==
    IF m.exc # "none" THEN Raise(m.exc, m.t)
    ELSE MaxDone(m, _delete_max(m.t.right))

_delete_max(h) ==
    IF h = Nil THEN Raise("AttributeError", Nil)
    ELSE IF is_red(h.left) THEN Raise("NameError", h)
    ELSE IF h.right = Nil THEN Ok(Nil)
    ELSE DeleteMaxDescend(BorrowRight(h))

\* LeftRB._delete, the branch key < h.key
DeleteLeft(m, key) ==
    IF m.exc # "none" THEN Raise(m.exc, m.t)
    ELSE LeftDone(m, _delete(m.t.left, key))

\* h.value = h.right.search(h.right.min()); h.key = h.right.min()
\* (value is an attribute nothing reads: search reads val, which stays)
CopySuccessor(h) == [h EXCEPT !.key = NodeMin(h.right)]

\* LeftRB._delete, the else branch after BorrowRight; rot tells that
\* _rotate_right has run, which leaves the object passed in as the RED right
\* child of h (so that BorrowRight did nothing)
DeleteRight(m, key, rot) ==
    IF m.exc # "none" THEN Raise(m.exc, IF rot THEN m.t.right ELSE m.t)
    ELSE IF key = m.t.key
    THEN RightDone(CopySuccessor(m.t), _delete_min(m.t.right),
                   rot \/ ~m.same)
    ELSE RightDone(m.t, _delete(m.t.right, key), rot \/ ~m.same)

\* LeftRB._delete, the else branch after its rotation
DeleteHere(h, key, rot) ==
    IF key = h.key /\ h.right = Nil THEN Ok(Nil)
    ELSE DeleteRight(BorrowRight(h), key, rot)

_delete(h, key) ==
    IF h = Nil THEN Raise("AttributeError", Nil)
    ELSE IF NodeSearch(h, key) = None THEN Raise("AssertionError", h)
    ELSE IF key < h.key THEN DeleteLeft(BorrowLeft(h), key)
    ELSE DeleteHere(IF is_red(h.left) THEN _rotate_right(h) ELSE h, key,
                    is_red(h.left))

\* the outcome of a public method: [exc, t, ret], t the tree self.root names
\* afterwards and ret the name of the value returned ("False", or "None" for
\* falling off the end of the method)
Outcome(e, t, ret) == [exc |-> e, t |-> t, ret |-> ret]

\* if is_black(self.root.left) and is_black(self.root.right):
\*     self.root.color = RED
RootRed(t) ==
    IF is_black(t.left) /\ is_black(t.right)
    THEN [t EXCEPT !.color = RED] ELSE t

\* self.root = <d>; if not self.is_empty(): self.root.color = BLACK
DeleteDone(d) ==
    IF d.exc # "none" THEN Outcome(d.exc, d.t, "raised")
    ELSE IF d.t = Nil THEN Outcome("none", Nil, "None")
    ELSE Outcome("none", [d.t EXCEPT !.color = BLACK], "None")

DeleteIfPresent(t, key, c) ==
    IF c.exc # "none" THEN Outcome(c.exc, t, "raised")
    ELSE IF ~c.t THEN Outcome("none", t, "False")
    ELSE DeleteDone(_delete(RootRed(t), key))

\* LeftRB.delete
delete(t, key) == DeleteIfPresent(t, key, contains(t, key))

\* self.root = <d>; self.root.color = BLACK, which raises when the tree has
\* become empty
ExtremeDone(d) ==
    IF d.exc # "none" THEN Outcome(d.exc, d.t, "raised")
    ELSE IF d.t = Nil THEN Outcome("AttributeError", Nil, "raised")
    ELSE Outcome("none", [d.t EXCEPT !.color = BLACK], "None")

\* LeftRB.delete_min
delete_min(t) == ExtremeDone(_delete_min(t))

\* LeftRB.delete_max
delete_max(t) == ExtremeDone(_delete_max(t))

\* ------------------------------------------------------------ state machine
\* root: LeftRB.root.  exc: the exception that ended the run, or "none".
\* last, pre: the last call made and the tree it was made on.
\* amap: while only inserts have been made, the key -> value arguments of the
\* most recent insert of each key.
EmptyMap == [k \in {} |-> None]

NoCall == [op |-> "none", key |-> None, val |-> None, ret |-> "None"]

Call(op, key, val, ret) == [op |-> op, key |-> key, val |-> val, ret |-> ret]

Init ==
    /\ root = Nil
    /\ exc = "none"
    /\ last = NoCall
    /\ pre = Nil
    /\ amap = [only |-> TRUE, m |-> EmptyMap]
    /\ calls = 0

\* a public call with outcome r made on the tree
Apply(op, k, v, r) ==
    /\ root' = r.t
    /\ exc' = r.exc
    /\ last' = Call(op, k, v, r.ret)
    /\ pre' = root
    /\ calls' = calls + 1

Insert(k, v) ==
    /\ Apply("insert", k, v, Outcome("none", insert(root, k, v), "None"))
    /\ amap' = IF amap.only
               THEN [amap EXCEPT !.m = [x \in DOMAIN amap.m \cup {k} |->
                                          IF x = k THEN v ELSE amap.m[x]]]
               ELSE amap

Delete(k) ==
    /\ Apply("delete", k, None, delete(root, k))
    /\ amap' = [only |-> FALSE, m |-> EmptyMap]

DeleteMin ==
    /\ Apply("delete_min", None, None, delete_min(root))
    /\ amap' = [only |-> FALSE, m |-> EmptyMap]

DeleteMax ==
    /\ Apply("delete_max", None, None, delete_max(root))
    /\ amap' = [only |-> FALSE, m |-> EmptyMap]

\* node.insert(k, v) called on the node of the tree that holds key n
InsertAtNode(n, k, v) ==
    /\ root # Nil
    /\ NodeSearch(root, n) # None
    /\ Apply("node_insert", k, v,
             Outcome("AttributeError", NodeInsertAt(root, n, k, v), "raised"))
    /\ amap' = [only |-> FALSE, m |-> EmptyMap]

\* a query with outcome s made on the tree, the value returned kept in
\* last.ret (dflt when it raised)
Query(op, k, s, dflt) ==
    /\ exc' = s.exc
    /\ last' = Call(op, k, None, IF s.exc = "none" THEN s.t ELSE dflt)
    /\ pre' = root
    /\ calls' = calls + 1
    /\ UNCHANGED <<root, amap>>

\* tree.search(k)
Search(k) == Query("search", k, search(root, k), None)

\* k in tree
Contains(k) == Query("contains", k, contains(root, k), FALSE)

\* insert(key, value) and delete(key) over the keys 1 .. MaxKey, in runs of at
\* most MaxCalls calls
Next ==
    /\ calls < MaxCalls
    /\ \/ \E k \in Keys, v \in Vals \cup {None} : Insert(k, v)
       \/ \E k \in Keys : Delete(k)

Spec == Init /\ [][Next]_vars

\* insert(key) and delete(key) over the wider key range 1 .. MaxWideKey, in
\* runs of at most MaxWideCalls calls
NextKeys ==
    /\ calls < MaxWideCalls
    /\ \/ \E k \in WideKeys : Insert(k, None)
       \/ \E k \in WideKeys : Delete(k)

SpecKeys == Init /\ [][NextKeys]_vars

\* insert(key) alone over the keys 1 .. MaxInsertKey: the trees built by
\* inserts only, among them chains with more levels than 2 * ceil(log2(n + 1))
NextInserts == calls < MaxCalls /\ \E k \in InsertKeys : Insert(k, None)

SpecInserts == Init /\ [][NextInserts]_vars

\* every public operation, in runs of at most MaxCalls calls
NextOps ==
    /\ calls < MaxCalls
    /\ \/ \E k \in Keys, v \in Vals \cup {None} : Insert(k, v)
       \/ \E k \in Keys : Delete(k)
       \/ DeleteMin
       \/ DeleteMax
       \/ \E k \in Keys : Search(k)
       \/ \E k \in Keys : Contains(k)
       \/ \E n \in Keys, k \in Keys : InsertAtNode(n, k, None)

SpecOps == Init /\ [][NextOps]_vars

\* ------------------------------------------------- what the claims speak of
RECURSIVE KeySet(_)
KeySet(t) ==
    IF t = Nil THEN {} ELSE KeySet(t.left) \cup {t.key} \cup KeySet(t.right)

RECURSIVE InOrder(_)
InOrder(t) ==
    IF t = Nil THEN << >>
    ELSE InOrder(t.left) \o <<t.key>> \o InOrder(t.right)

RECURSIVE SortedSeq(_)
SortedSeq(S) ==
    IF S = {} THEN << >>
    ELSE LET m == CHOOSE x \in S : \A y \in S : x <= y
         IN  <<m>> \o SortedSeq(S \ {m})

StrictlyIncreasing(q) == \A i \in 1 .. Len(q) - 1 : q[i] < q[i + 1]

\* every node separates the keys of its two subtrees
RECURSIVE Ordered(_)
Ordered(t) ==
    \/ t = Nil
    \/ /\ \A k \in KeySet(t.left) : k < t.key
       /\ \A k \in KeySet(t.right) : t.key < k
       /\ Ordered(t.left)
       /\ Ordered(t.right)

\* the numbers of BLACK nodes met on the paths from t to an absent child
RECURSIVE BlackCounts(_)
BlackCounts(t) ==
    IF t = Nil THEN {0}
    ELSE {n + (IF t.color = BLACK THEN 1 ELSE 0) :
             n \in BlackCounts(t.left) \cup BlackCounts(t.right)}

RECURSIVE HasRedRight(_)
HasRedRight(t) ==
    /\ t # Nil
    /\ \/ is_red(t.right)
       \/ HasRedRight(t.left)
       \/ HasRedRight(t.right)

\* the value search finds for k in a non-empty tree, None in the empty one
Found(t, k) == IF t = Nil THEN None ELSE NodeSearch(t, k)

Returned == exc = "none" /\ last.op # "none"

DeletedPresent ==
    /\ last.op = "delete"
    /\ pre # Nil
    /\ NodeSearch(pre, last.key) # None

\* C1: delete(k) with k present returns normally and leaves exactly the
\* previous keys without k: k is no longer contained and len() is one less.
C1_DeleteRemovesExactlyKey ==
    DeletedPresent =>
        /\ exc = "none"
        /\ KeySet(root) = KeySet(pre) \ {last.key}
        /\ Found(root, last.key) = None
        /\ len(root) = len(pre) - 1

\* C2: once a call of insert or delete has returned, every path from the root
\* to an absent child passes through the same number of BLACK nodes.
C2_BlackBalance ==
    (Returned /\ last.op \in {"insert", "delete"}) =>
        Cardinality(BlackCounts(root)) = 1

\* C3: once a call of insert or delete has returned, no node has a RED right
\* child.
C3_LeftLeaning ==
    (Returned /\ last.op \in {"insert", "delete"}) => ~HasRedRight(root)

\* C4: after every insert or delete call that returned, each node's key lies
\* above all keys of its left subtree and below all keys of its right subtree,
\* so the in-order traversal is strictly increasing; and as long as only
\* inserts have been made, the in-order traversal is the sorted sequence of the
\* distinct keys inserted.
C4_Ordering ==
    Returned =>
        /\ Ordered(root)
        /\ StrictlyIncreasing(InOrder(root))
        /\ amap.only => InOrder(root) = SortedSeq(DOMAIN amap.m)

\* the value the abstract map gives for an inserted key: the value argument of
\* its most recent insert, or the key itself when that was None
MapValue(k) == IF amap.m[k] # None THEN amap.m[k] ELSE k

\* C5: while only inserts have been made, search(k) returns for every inserted
\* key the value of its most recent insert (the key itself when that insert
\* gave none), and len() is the number of distinct keys inserted.
C5_InsertOnlyMap ==
    (Returned /\ amap.only) =>
        /\ \A k \in DOMAIN amap.m : Found(root, k) = MapValue(k)
        /\ len(root) = Cardinality(DOMAIN amap.m)

\* an insert of a key already present has replaced its value
C5_Witness ==
    /\ amap.only
    /\ last.op = "insert"
    /\ len(pre) >= 2
    /\ len(root) = len(pre)
    /\ Found(pre, last.key) # Found(root, last.key)

\* C6: after delete(k) with k present, every other key that was present is
\* still found with the value it had before.
C6_DeleteKeepsOtherValues ==
    (DeletedPresent /\ exc = "none") =>
        \A k \in KeySet(pre) \ {last.key} : Found(root, k) = Found(pre, k)

\* C7: delete(k) with k absent from a non-empty tree returns False without
\* raising and leaves the tree as it was (keys, values, shape, colours, cached
\* heights).
C7_DeleteAbsent ==
    (last.op = "delete" /\ pre # Nil /\ last.key \notin KeySet(pre)) =>
        /\ exc = "none"
        /\ last.ret = "False"
        /\ root = pre

\* delete of an absent key has been called on a tree of at least two nodes
C7_Witness ==
    /\ last.op = "delete"
    /\ len(pre) >= 2
    /\ last.key \notin KeySet(pre)
    /\ last.ret = "False"

\* C8: on the empty tree, is_empty() is true, min() and max() return None,
\* search(k) and contains(k) report absent, delete(k), delete_min() and
\* delete_max() report failure, none of them raises, and the tree is empty
\* afterwards.
C8_EmptyTreeNoCrash ==
    /\ is_empty(Nil) /\ min(Nil) = None /\ max(Nil) = None
    /\ (pre = Nil /\ last.op \in {"search", "contains", "delete",
                                  "delete_min", "delete_max"}) =>
          /\ exc = "none"
          /\ root = Nil
          /\ last.op = "search" => last.ret = None
          /\ last.op = "contains" => last.ret = FALSE
          /\ last.op \in {"delete", "delete_min", "delete_max"} =>
                last.ret = "False"

\* C9: delete_min() on a non-empty tree returns normally, removes exactly the
\* smallest key and leaves the root BLACK when the tree is still non-empty.
C9_DeleteMin ==
    (last.op = "delete_min" /\ pre # Nil) =>
        /\ exc = "none"
        /\ KeySet(root) = KeySet(pre) \ {min(pre)}
        /\ root # Nil => root.color = BLACK

\* C10: delete_max() on a non-empty tree returns normally, removes exactly the
\* largest key and leaves the root BLACK when the tree is still non-empty.
C10_DeleteMax ==
    (last.op = "delete_max" /\ pre # Nil) =>
        /\ exc = "none"
        /\ KeySet(root) = KeySet(pre) \ {max(pre)}
        /\ root # Nil => root.color = BLACK

\* the number of nodes on the longest path from t to a leaf
RECURSIVE Levels(_)
Levels(t) == IF t = Nil THEN 0 ELSE 1 + Max(Levels(t.left), Levels(t.right))

\* ceil(log2(m)) for m >= 1: the least e with 2^e >= m
RECURSIVE CeilLog2(_)
CeilLog2(m) == IF m <= 1 THEN 0 ELSE 1 + CeilLog2((m + 1) \div 2)

\* C11: for a tree built by inserting n >= 1 distinct keys (and nothing else),
\* height() <= 2 * ceil(log2(n + 1)).
C11_HeightBound ==
    (Returned /\ amap.only /\ root # Nil) =>
        height(root) <= 2 * CeilLog2(Cardinality(DOMAIN amap.m) + 1)

\* only inserts were made, of distinct keys in an order that leaves a tree
\* with more levels than the bound allows
C11_Witness ==
    /\ amap.only
    /\ last.op = "insert"
    /\ len(root) = Cardinality(DOMAIN amap.m)
    /\ Levels(root) > 2 * CeilLog2(len(root) + 1)

\* C12: no call of insert or delete on a non-empty tree raises: _flip_colors is
\* never reached on a node with an absent child and the assertion at the top
\* of _delete never fails.
C12_NoInternalFailure ==
    (last.op \in {"insert", "delete"} /\ pre # Nil) => exc = "none"

\* every node's cached height is 1 + the larger of its children's
RECURSIVE HeightsConsistent(_)
HeightsConsistent(t) ==
    \/ t = Nil
    \/ /\ t.height = 1 + Max(height(t.left), height(t.right))
       /\ HeightsConsistent(t.left)
       /\ HeightsConsistent(t.right)

\* C13: once a call of insert or delete has returned, every node's cached
\* height is 1 + the larger of its children's cached heights, so height() is
\* the number of nodes on the longest path from the root down, and 0 exactly
\* for the empty tree.
C13_CachedHeights ==
    (Returned /\ last.op \in {"insert", "delete"}) =>
        /\ HeightsConsistent(root)
        /\ height(root) = Levels(root)
        /\ height(root) = 0 <=> root = Nil

====
